---- MODULE Spec2Model ----
(***************************************************************************)
(* Live-transcription session controller of Doc Trans Pro                  *)
(* (src/unnamed/part_002 lines 186-270, the same code as                   *)
(* src/unnamed/part_001 lines 513-578 and 667).                            *)
(*                                                                         *)
(* Every invocation of startRecording is an asynchronous call with its own *)
(* closure (stream, audioContext, sessionPromise).  Calls are numbered     *)
(* 1..MaxCalls; 0 stands for null in the four refs.  The browser and the   *)
(* remote service are the environment: they complete getUserMedia and      *)
(* live.connect and deliver onopen / onmessage / onerror / onclose and     *)
(* onaudioprocess in any order that causality allows.  Every handler runs  *)
(* to completion (single-threaded event loop), so each is one action.      *)
(*                                                                         *)
(* Further specifications in this module, each over its own variables:     *)
(*   SpecTranscript  onmessage applied to the transcript buffer            *)
(*   SpecPlayback    speakText (src/services/geminiService.ts)             *)
(*   SpecClamp       createAudioBlob, SpecBase64  encodeAudio / decode,    *)
(*   SpecDecode      decodeAudioData                                       *)
(***************************************************************************)
EXTENDS Integers, Sequences, FiniteSets, TLC

\* ---------------------------------------------------------------- bounds
MaxCalls == 2      \* invocations of startRecording in one run
MaxBlocks == 2     \* capture blocks delivered to onaudioprocess in one run
MaxMsgs == 1       \* server messages delivered to onmessage in one run
MaxFaults == 1     \* exceptions thrown by the browser or the SDK in one run
MaxSpeaks == 3     \* invocations of speakText in one run
MaxDeltas == 3     \* server messages delivered in one run of SpecTranscript
MaxSamples == 2    \* samples in the block given to createAudioBlob
MaxPcmBytes == 6   \* bytes in the array given to decodeAudioData
MaxChannels == 2   \* numChannels given to decodeAudioData
MaxRequests == 2   \* handleTranslate calls in one run of SpecTranslate
MaxEntries == 22   \* history items added in one run of SpecHistory
MaxEvents == 4     \* onresult events in one run of SpecSpeech
MaxItems == 2      \* history items made in one run of SpecLang
MaxEdits == 2      \* edits of the source text and selections in one run
MaxBytes == 4      \* bytes in the array given to encodeAudio

Calls == 1..MaxCalls
Speaks == 1..MaxSpeaks
Requests == 1..MaxRequests
Null == 0
Kinds == {"session", "processor", "stream", "context"}

\* newText values carried by inputTranscription messages (characters as
\* one-element strings)
Deltas == {<<"a">>, <<"b", " ">>}

VARIABLES
  isRecording,       \* useState(false), part_002:69
  sessionRef,        \* useRef(null), part_002:70
  audioContextRef,   \* part_002:71
  streamRef,         \* part_002:72
  processorRef,      \* part_002:73
  sourceText,        \* useState(''), part_002:55
  pc,                \* position of every startRecording call
  stream,            \* MediaStream acquired by call i
  ctx,               \* AudioContext created by call i
  proc,              \* ScriptProcessorNode created in onopen of call i
  conn,              \* remote connection opened by live.connect of call i
  opened,            \* onopen of call i has been delivered
  pendingSends,      \* sends queued on sessionPromise of call i
  sent,              \* sendRealtimeInput calls made on session i
  nRel,              \* successful releases of every resource of call i
  lastTeardown,      \* release calls made by the latest stopRecording
  stopCalledFor,     \* stopRecording has run since call i was started
  startedWhileOpen,  \* call i was started while a session was open
  blocks,            \* capture blocks delivered so far
  msgs,              \* server messages delivered so far
  faults,            \* exceptions thrown so far
  lastOp,            \* "stopRecording" when the latest handler ran it
  delivered,         \* newText of every inputTranscription message, in delivery order
  \* speakText, src/services/geminiService.ts
  ttsPc,             \* position of every speakText call
  ttsText,           \* text argument of every speakText call
  outputCtx,         \* outputAudioContext created by speakText call r
  source,            \* AudioBufferSourceNode of speakText call r
  ttsOutcome,        \* how the promise of speakText call r settled
  response,          \* what generateContent gave speakText call r
  synth,             \* utterances held by window.speechSynthesis
  \* audio helpers
  codecPc,           \* which audio helper has run on the values below
  data,              \* Float32Array given to createAudioBlob
  int16,             \* Int16Array filled by createAudioBlob
  bytes,             \* Uint8Array given to encodeAudio
  encoded,           \* base64 text returned by encodeAudio
  decoded,           \* Uint8Array returned by decode
  pcm,               \* Uint8Array given to decodeAudioData
  numChannels,       \* numChannels given to decodeAudioData
  audioBuffer,       \* result of decodeAudioData
  \* translation workspace, src/unnamed/part_002:55-155
  translatedText,    \* the text shown in the target pane
  sourceLang,        \* selected source language, "auto" to detect
  targetLang,        \* selected target language
  detectedLang,      \* language last detected, "null" when none
  isTranslating,     \* the spinner flag
  isProcessingFile,  \* a file is being read
  history,           \* TranslationHistoryItem[], newest first
  stored,            \* localStorage item doctrans_history
  timers,            \* pending debounce timers with what their closure holds
  requests,          \* every handleTranslate call: position and closure
  edits,             \* changes of the source text and the selections so far
  tracksFile,        \* the debounce effect is the one that checks isProcessingFile
  clock,             \* Date.now() of the latest history item
  \* browser speech recognition, src/index.tsx:40-57
  results,           \* event.results: transcript and isFinal of every result
  events             \* onresult events delivered so far

refs == <<sessionRef, audioContextRef, streamRef, processorRef>>
captureVars == <<sessionRef, audioContextRef, streamRef, processorRef,
                 pc, stream, ctx, proc, conn, opened, pendingSends,
                 sent, nRel, lastTeardown, stopCalledFor, startedWhileOpen,
                 blocks, faults, lastOp>>
voiceVars == <<isRecording, sessionRef, audioContextRef, streamRef, processorRef,
               pc, stream, ctx, proc, conn, opened, pendingSends,
               sent, nRel, lastTeardown, stopCalledFor, startedWhileOpen,
               blocks, faults, lastOp>>
textVars == <<sourceText, msgs, delivered>>
playVars == <<ttsPc, ttsText, outputCtx, source, ttsOutcome, response, synth>>
codecVars == <<codecPc, data, int16,
               bytes, encoded, decoded, pcm, numChannels, audioBuffer>>
speechVars == <<results, events>>
auxVars == <<clock, speechVars>>
appVars == <<translatedText, sourceLang, targetLang, detectedLang,
            isTranslating, isProcessingFile, history, stored, timers,
            requests, edits, tracksFile, auxVars>>
vars == <<voiceVars, textVars, playVars, codecVars, appVars>>

\* ------------------------------------------------------------- helpers
\* String.prototype.trim on a sequence of characters
RECURSIVE TrimStart(_)
TrimStart(s) ==
  IF s # <<>> /\ Head(s) = " " THEN TrimStart(Tail(s)) ELSE s

RECURSIVE TrimEnd(_)
TrimEnd(s) ==
  IF s # <<>> /\ s[Len(s)] = " " THEN TrimEnd(SubSeq(s, 1, Len(s) - 1)) ELSE s

Trim(s) == TrimEnd(TrimStart(s))

\* the new text put in front of the buffer instead of behind it
AppendTranscriptInFront(prev, newText) == Trim(newText \o <<" ">> \o Trim(prev))

\* setSourceText(prev => (prev.trim() + " " + newText).trim())
AppendTranscript(prev, newText) == Trim(Trim(prev) \o <<" ">> \o newText)

\* a session is Open: its connection is open and its open callback has run
SessionOpen(i) == opened[i] /\ conn[i] = "open"
AnyOpen == \E i \in Calls : SessionOpen(i)

VoiceInit ==
  /\ isRecording = FALSE
  /\ sessionRef = Null
  /\ audioContextRef = Null
  /\ streamRef = Null
  /\ processorRef = Null
  /\ sourceText = <<>>
  /\ pc = [i \in Calls |-> "idle"]
  /\ stream = [i \in Calls |-> "none"]
  /\ ctx = [i \in Calls |-> "none"]
  /\ proc = [i \in Calls |-> "none"]
  /\ conn = [i \in Calls |-> "none"]
  /\ opened = [i \in Calls |-> FALSE]
  /\ pendingSends = [i \in Calls |-> 0]
  /\ sent = [i \in Calls |-> 0]
  /\ nRel = [i \in Calls |-> [k \in Kinds |-> 0]]
  /\ lastTeardown = <<>>
  /\ stopCalledFor = [i \in Calls |-> FALSE]
  /\ startedWhileOpen = [i \in Calls |-> FALSE]
  /\ blocks = 0
  /\ msgs = 0
  /\ faults = 0
  /\ lastOp = "other"
  /\ delivered = <<>>

\* no speakText call made yet
PlayInit ==
  /\ ttsPc = [r \in Speaks |-> "idle"]
  /\ ttsText = [r \in Speaks |-> "none"]
  /\ outputCtx = [r \in Speaks |-> FALSE]
  /\ source = [r \in Speaks |-> "none"]
  /\ ttsOutcome = [r \in Speaks |-> "none"]
  /\ response = [r \in Speaks |-> "none"]
  /\ synth = <<>>

\* no audio helper called yet
CodecIdle ==
  /\ codecPc = "idle"
  /\ data = <<>>
  /\ int16 = <<>>
  /\ bytes = <<>>
  /\ encoded = <<>>
  /\ decoded = [ok |-> TRUE, bytes |-> <<>>]
  /\ pcm = <<>>
  /\ numChannels = 1
  /\ audioBuffer = [status |-> "none"]

AuxIdle == clock = 0 /\ results = <<>> /\ events = 0

\* useState initial values of the translation workspace
IdleRequest == [stage |-> "idle", text |-> <<>>, src |-> "auto", tgt |-> "es",
                auto |-> FALSE]

AppIdle ==
  /\ translatedText = <<>>
  /\ sourceLang = "auto"
  /\ targetLang = "es"
  /\ detectedLang = "null"
  /\ isTranslating = FALSE
  /\ isProcessingFile = FALSE
  /\ history = <<>>
  /\ stored = <<>>
  /\ timers = <<>>
  /\ requests = [r \in Requests |-> IdleRequest]
  /\ edits = 0
  /\ tracksFile = FALSE
  /\ AuxIdle

Init == VoiceInit /\ PlayInit /\ CodecIdle /\ AppIdle

\* ------------------------------------------------------- stopRecording
\* stopRecording visiting the capture side before the session.
TeardownOrderCaptureFirst == <<"stream", "processor", "session", "context">>

\* The order in which stopRecording visits the four refs.
TeardownOrder == <<"session", "processor", "stream", "context">>

\* The part of the state stopRecording works on.
TeardownState(connNow) ==
  [sessionRef |-> sessionRef, processorRef |-> processorRef,
   streamRef |-> streamRef, audioContextRef |-> audioContextRef,
   conn |-> connNow, proc |-> proc, stream |-> stream, ctx |-> ctx,
   nRel |-> nRel, log |-> <<>>, thrown |-> FALSE]

\* One `if (ref.current) { release; ref.current = null; }` block.
\* sessFail: session.close() throws (caught by the try/catch around it).
\* abortAt: the release call that throws without being caught, if any.
ReleaseStep(kind, st, sessFail, abortAt) ==
  IF st.thrown THEN st
  ELSE IF kind = "session" THEN
    IF st.sessionRef = Null THEN st
    ELSE LET i == st.sessionRef IN
      IF sessFail
      THEN [st EXCEPT !.log = Append(@, kind), !.sessionRef = Null]
      ELSE [st EXCEPT !.log = Append(@, kind),
                      !.conn[i] = IF @ \in {"connecting", "open", "errored"}
                                  THEN "closing" ELSE @,
                      !.nRel[i][kind] = @ + 1,
                      !.sessionRef = Null]
  ELSE IF kind = "processor" THEN
    IF st.processorRef = Null THEN st
    ELSE LET i == st.processorRef IN
      IF abortAt = kind
      THEN [st EXCEPT !.log = Append(@, kind), !.thrown = TRUE]
      ELSE [st EXCEPT !.log = Append(@, kind),
                      !.proc[i] = "disconnected",
                      !.nRel[i][kind] = @ + 1,
                      !.processorRef = Null]
  ELSE IF kind = "stream" THEN
    IF st.streamRef = Null THEN st
    ELSE LET i == st.streamRef IN
      IF abortAt = kind
      THEN [st EXCEPT !.log = Append(@, kind), !.thrown = TRUE]
      ELSE [st EXCEPT !.log = Append(@, kind),
                      !.stream[i] = "stopped",
                      !.nRel[i][kind] = @ + 1,
                      !.streamRef = Null]
  ELSE
    IF st.audioContextRef = Null THEN st
    ELSE LET i == st.audioContextRef IN
      IF abortAt = kind
      THEN [st EXCEPT !.log = Append(@, kind), !.thrown = TRUE]
      ELSE [st EXCEPT !.log = Append(@, kind),
                      !.ctx[i] = "closed",
                      !.nRel[i][kind] = @ + 1,
                      !.audioContextRef = Null]

RECURSIVE RunTeardown(_, _, _, _)
RunTeardown(order, st, sessFail, abortAt) ==
  IF order = <<>> THEN st
  ELSE RunTeardown(Tail(order), ReleaseStep(Head(order), st, sessFail, abortAt),
                   sessFail, abortAt)

AbortPoints == {"none", "processor", "stream", "context"}

\* stopRecording(), run from the state in which the connections are connNow
stopRecording(connNow, sessFail, abortAt) ==
  LET st == RunTeardown(TeardownOrder, TeardownState(connNow), sessFail, abortAt)
      thrown == (IF sessFail THEN 1 ELSE 0) + (IF abortAt = "none" THEN 0 ELSE 1)
  IN /\ sessFail => sessionRef # Null
     /\ abortAt = "processor" => processorRef # Null
     /\ abortAt = "stream" => streamRef # Null
     /\ abortAt = "context" => audioContextRef # Null
     /\ faults + thrown <= MaxFaults
     /\ faults' = faults + thrown
     /\ sessionRef' = st.sessionRef
     /\ processorRef' = st.processorRef
     /\ streamRef' = st.streamRef
     /\ audioContextRef' = st.audioContextRef
     /\ conn' = st.conn
     /\ proc' = st.proc
     /\ stream' = st.stream
     /\ ctx' = st.ctx
     /\ nRel' = st.nRel
     /\ lastTeardown' = st.log
     /\ isRecording' = IF st.thrown THEN isRecording ELSE FALSE
     /\ stopCalledFor' = [i \in Calls |-> stopCalledFor[i] \/ pc[i] # "idle"]
     /\ lastOp' = "stopRecording"

\* ------------------------------------------------------ startRecording
\* toggleVoiceInput with isRecording false: startRecording() up to its first
\* await.  aiFail: the GoogleGenAI constructor throws.
startRecording(i, aiFail) ==
  /\ ~isRecording
  /\ pc[i] = "idle"
  /\ \A j \in Calls : j < i => pc[j] # "idle"
  /\ aiFail => faults < MaxFaults
  /\ faults' = IF aiFail THEN faults + 1 ELSE faults
  /\ isRecording' = ~aiFail
  /\ pc' = [pc EXCEPT ![i] = IF aiFail THEN "failed" ELSE "awaitMedia"]
  /\ startedWhileOpen' = [startedWhileOpen EXCEPT ![i] = AnyOpen]
  /\ lastOp' = "other"
  /\ lastTeardown' = <<>>
  /\ UNCHANGED <<delivered, playVars, codecVars, appVars>>
  /\ UNCHANGED <<sessionRef, audioContextRef, streamRef, processorRef,
                 sourceText, stream, ctx, proc, conn, opened, pendingSends,
                 sent, nRel, stopCalledFor, blocks, msgs>>

\* toggleVoiceInput with isRecording true
toggleStop(sessFail, abortAt) ==
  /\ isRecording
  /\ stopRecording(conn, sessFail, abortAt)
  /\ UNCHANGED <<delivered, playVars, codecVars, appVars>>
  /\ UNCHANGED <<sourceText, pc, opened, pendingSends, sent,
                 startedWhileOpen, blocks, msgs>>

\* MediaResolve with the capture pipeline attached as soon as live.connect has
\* been called instead of inside onopen.
MediaResolveEager(i, ctxFail) ==
  /\ pc[i] = "awaitMedia"
  /\ ctxFail => faults < MaxFaults
  /\ faults' = IF ctxFail THEN faults + 1 ELSE faults
  /\ stream' = [stream EXCEPT ![i] = "live"]
  /\ streamRef' = i
  /\ IF ctxFail
     THEN /\ pc' = [pc EXCEPT ![i] = "failed"]
          /\ isRecording' = FALSE
          /\ UNCHANGED <<ctx, audioContextRef, conn, proc, processorRef>>
     ELSE /\ pc' = [pc EXCEPT ![i] = "awaitConnect"]
          /\ ctx' = [ctx EXCEPT ![i] = "open"]
          /\ audioContextRef' = i
          /\ conn' = [conn EXCEPT ![i] = "connecting"]
          /\ proc' = [proc EXCEPT ![i] = "attached"]
          /\ processorRef' = i
          /\ UNCHANGED isRecording
  /\ lastOp' = "other"
  /\ lastTeardown' = <<>>
  /\ UNCHANGED <<delivered, playVars, codecVars, appVars>>
  /\ UNCHANGED <<sessionRef, sourceText, opened, pendingSends, sent, nRel,
                 stopCalledFor, startedWhileOpen, blocks, msgs>>

\* getUserMedia resolves: startRecording continues up to `await sessionPromise`.
\* ctxFail: the AudioContext constructor throws.
MediaResolve(i, ctxFail) ==
  /\ pc[i] = "awaitMedia"
  /\ ctxFail => faults < MaxFaults
  /\ faults' = IF ctxFail THEN faults + 1 ELSE faults
  /\ stream' = [stream EXCEPT ![i] = "live"]
  /\ streamRef' = i
  /\ IF ctxFail
     THEN /\ pc' = [pc EXCEPT ![i] = "failed"]
          /\ isRecording' = FALSE
          /\ UNCHANGED <<ctx, audioContextRef, conn>>
     ELSE /\ pc' = [pc EXCEPT ![i] = "awaitConnect"]
          /\ ctx' = [ctx EXCEPT ![i] = "open"]
          /\ audioContextRef' = i
          /\ conn' = [conn EXCEPT ![i] = "connecting"]
          /\ UNCHANGED isRecording
  /\ lastOp' = "other"
  /\ lastTeardown' = <<>>
  /\ UNCHANGED <<delivered, playVars, codecVars, appVars>>
  /\ UNCHANGED <<sessionRef, processorRef, sourceText, proc, opened,
                 pendingSends, sent, nRel, stopCalledFor,
                 startedWhileOpen, blocks, msgs>>

\* getUserMedia rejects: the catch block
MediaReject(i) ==
  /\ pc[i] = "awaitMedia"
  /\ pc' = [pc EXCEPT ![i] = "failed"]
  /\ isRecording' = FALSE
  /\ lastOp' = "other"
  /\ lastTeardown' = <<>>
  /\ UNCHANGED <<delivered, playVars, codecVars, appVars>>
  /\ UNCHANGED <<faults, sessionRef, audioContextRef, streamRef, processorRef,
                 sourceText, stream, ctx, proc, conn, opened, pendingSends,
                 sent, nRel, stopCalledFor, startedWhileOpen,
                 blocks, msgs>>

\* callbacks.onopen of call i
OnOpen(i) ==
  /\ pc[i] = "awaitConnect"
  /\ conn[i] = "connecting"
  /\ conn' = [conn EXCEPT ![i] = "open"]
  /\ opened' = [opened EXCEPT ![i] = TRUE]
  /\ proc' = [proc EXCEPT ![i] = "attached"]
  /\ processorRef' = i
  /\ lastOp' = "other"
  /\ lastTeardown' = <<>>
  /\ UNCHANGED <<delivered, playVars, codecVars, appVars>>
  /\ UNCHANGED <<faults, isRecording, sessionRef, audioContextRef, streamRef,
                 sourceText, pc, stream, ctx, pendingSends, sent, nRel,
                 stopCalledFor, startedWhileOpen, blocks, msgs>>

\* sessionPromise resolves: `sessionRef.current = await sessionPromise`, then
\* the sends that onaudioprocess queued on the promise
ConnectResolve(i) ==
  /\ pc[i] = "awaitConnect"
  /\ opened[i]
  /\ sessionRef' = i
  /\ pc' = [pc EXCEPT ![i] = "done"]
  /\ sent' = [sent EXCEPT ![i] = @ + pendingSends[i]]
  /\ pendingSends' = [pendingSends EXCEPT ![i] = 0]
  /\ lastOp' = "other"
  /\ lastTeardown' = <<>>
  /\ UNCHANGED <<delivered, playVars, codecVars, appVars>>
  /\ UNCHANGED <<faults, isRecording, audioContextRef, streamRef, processorRef,
                 sourceText, stream, ctx, proc, conn, opened, nRel,
                 stopCalledFor, startedWhileOpen, blocks, msgs>>

\* sessionPromise rejects (or live.connect throws): the catch block
ConnectReject(i) ==
  /\ pc[i] = "awaitConnect"
  /\ ~opened[i]
  /\ pc' = [pc EXCEPT ![i] = "failed"]
  /\ conn' = [conn EXCEPT ![i] = IF @ = "connecting" THEN "errored" ELSE @]
  /\ isRecording' = FALSE
  /\ lastOp' = "other"
  /\ lastTeardown' = <<>>
  /\ UNCHANGED <<delivered, playVars, codecVars, appVars>>
  /\ UNCHANGED <<faults, sessionRef, audioContextRef, streamRef, processorRef,
                 sourceText, stream, ctx, proc, opened, pendingSends, sent,
                 nRel, stopCalledFor, startedWhileOpen,
                 blocks, msgs>>

\* onaudioprocess that also records the block in the source text
OnAudioProcessWriting(i) ==
  /\ proc[i] # "none"
  /\ ctx[i] = "open"
  /\ blocks < MaxBlocks
  /\ blocks' = blocks + 1
  /\ IF pc[i] = "done"
     THEN sent' = [sent EXCEPT ![i] = @ + 1] /\ UNCHANGED pendingSends
     ELSE pendingSends' = [pendingSends EXCEPT ![i] = @ + 1] /\ UNCHANGED sent
  /\ sourceText' = AppendTranscript(sourceText, <<"a">>)
  /\ lastOp' = "other"
  /\ lastTeardown' = <<>>
  /\ UNCHANGED <<delivered, playVars, codecVars, appVars>>
  /\ UNCHANGED <<faults, isRecording, sessionRef, audioContextRef, streamRef,
                 processorRef, pc, stream, ctx, proc, conn,
                 opened, nRel, stopCalledFor, startedWhileOpen,
                 msgs>>

\* scriptProcessor.onaudioprocess of call i: one block, one send scheduled on
\* sessionPromise (made at once when the promise is already resolved)
OnAudioProcess(i) ==
  /\ proc[i] # "none"
  /\ ctx[i] = "open"
  /\ blocks < MaxBlocks
  /\ blocks' = blocks + 1
  /\ IF pc[i] = "done"
     THEN sent' = [sent EXCEPT ![i] = @ + 1] /\ UNCHANGED pendingSends
     ELSE pendingSends' = [pendingSends EXCEPT ![i] = @ + 1] /\ UNCHANGED sent
  /\ lastOp' = "other"
  /\ lastTeardown' = <<>>
  /\ UNCHANGED <<delivered, playVars, codecVars, appVars>>
  /\ UNCHANGED <<faults, isRecording, sessionRef, audioContextRef, streamRef,
                 processorRef, sourceText, pc, stream, ctx, proc, conn,
                 opened, nRel, stopCalledFor, startedWhileOpen,
                 msgs>>

\* callbacks.onmessage of call i; hasText: the message carries
\* serverContent.inputTranscription
OnMessage(i, hasText, newText) ==
  /\ SessionOpen(i)
  /\ msgs < MaxMsgs
  /\ msgs' = msgs + 1
  /\ sourceText' = IF hasText THEN AppendTranscript(sourceText, newText)
                   ELSE sourceText
  /\ lastOp' = "other"
  /\ lastTeardown' = <<>>
  /\ delivered' = IF hasText THEN Append(delivered, newText) ELSE delivered
  /\ UNCHANGED <<playVars, codecVars, appVars>>
  /\ UNCHANGED <<faults, isRecording, sessionRef, audioContextRef, streamRef,
                 processorRef, pc, stream, ctx, proc, conn, opened,
                 pendingSends, sent, nRel, stopCalledFor,
                 startedWhileOpen, blocks>>

\* callbacks.onerror that also starts the next recording by itself
OnErrorRetry(i, sessFail, abortAt) ==
  /\ conn[i] \in {"connecting", "open"}
  /\ stopRecording([conn EXCEPT ![i] = "errored"], sessFail, abortAt)
  /\ pc' = [j \in Calls |->
             IF pc[j] = "idle" /\ (\A k \in Calls : k < j => pc[k] # "idle")
             THEN "awaitMedia" ELSE pc[j]]
  /\ UNCHANGED <<delivered, playVars, codecVars, appVars>>
  /\ UNCHANGED <<sourceText, opened, pendingSends, sent,
                 startedWhileOpen, blocks, msgs>>

\* callbacks.onerror of call i: stopRecording()
OnError(i, sessFail, abortAt) ==
  /\ conn[i] \in {"connecting", "open"}
  /\ stopRecording([conn EXCEPT ![i] = "errored"], sessFail, abortAt)
  /\ UNCHANGED <<delivered, playVars, codecVars, appVars>>
  /\ UNCHANGED <<sourceText, pc, opened, pendingSends, sent,
                 startedWhileOpen, blocks, msgs>>

\* callbacks.onclose of call i: stopRecording()
OnClose(i, sessFail, abortAt) ==
  /\ conn[i] \in {"connecting", "open", "errored", "closing"}
  /\ stopRecording([conn EXCEPT ![i] = "closed"], sessFail, abortAt)
  /\ UNCHANGED <<delivered, playVars, codecVars, appVars>>
  /\ UNCHANGED <<sourceText, pc, opened, pendingSends, sent,
                 startedWhileOpen, blocks, msgs>>

Next ==
  \/ \E i \in Calls, aiFail \in BOOLEAN : startRecording(i, aiFail)
  \/ \E sessFail \in BOOLEAN, abortAt \in AbortPoints : toggleStop(sessFail, abortAt)
  \/ \E i \in Calls, ctxFail \in BOOLEAN : MediaResolve(i, ctxFail)
  \/ \E i \in Calls : MediaReject(i)
  \/ \E i \in Calls : OnOpen(i)
  \/ \E i \in Calls : ConnectResolve(i)
  \/ \E i \in Calls : ConnectReject(i)
  \/ \E i \in Calls : OnAudioProcess(i)
  \/ \E i \in Calls, hasText \in BOOLEAN, newText \in Deltas : OnMessage(i, hasText, newText)
  \/ \E i \in Calls, sessFail \in BOOLEAN, abortAt \in AbortPoints : OnError(i, sessFail, abortAt)
  \/ \E i \in Calls, sessFail \in BOOLEAN, abortAt \in AbortPoints : OnClose(i, sessFail, abortAt)

Spec == Init /\ [][Next]_vars

TypeOK ==
  /\ isRecording \in BOOLEAN
  /\ sessionRef \in 0..MaxCalls
  /\ audioContextRef \in 0..MaxCalls
  /\ streamRef \in 0..MaxCalls
  /\ processorRef \in 0..MaxCalls
  /\ pc \in [Calls -> {"idle", "awaitMedia", "awaitConnect", "done", "failed"}]
  /\ stream \in [Calls -> {"none", "live", "stopped"}]
  /\ ctx \in [Calls -> {"none", "open", "closed"}]
  /\ proc \in [Calls -> {"none", "attached", "disconnected"}]
  /\ conn \in [Calls -> {"none", "connecting", "open", "errored", "closing", "closed"}]
  /\ blocks \in 0..MaxBlocks
  /\ msgs \in 0..MaxMsgs
  /\ faults \in 0..MaxFaults

\* ------------------------------------------------------------ properties
AllRefsNull ==
  /\ sessionRef = Null
  /\ audioContextRef = Null
  /\ streamRef = Null
  /\ processorRef = Null

AllRefsSet ==
  /\ sessionRef # Null
  /\ audioContextRef # Null
  /\ streamRef # Null
  /\ processorRef # Null

\* the session of call i has been handed to the controller and is still open
SessionLive(i) == pc[i] = "done" /\ conn[i] = "open"

\* position of kind k in the sequence s (0 when absent)
PosIn(s, k) == IF \E n \in 1..Len(s) : s[n] = k
               THEN CHOOSE n \in 1..Len(s) : s[n] = k
               ELSE 0

IsPrefix(s, t) == Len(s) <= Len(t) /\ SubSeq(t, 1, Len(s)) = s

\* C1: the controller has at most one live microphone stream and at most one
\* live remote session, and none is live that streamRef / sessionRef does not
\* reference.
C1_AtMostOneLive ==
  /\ Cardinality({i \in Calls : stream[i] = "live"}) <= 1
  /\ Cardinality({i \in Calls : SessionLive(i)}) <= 1
  /\ \A i \in Calls : stream[i] = "live" => streamRef = i
  /\ \A i \in Calls : SessionLive(i) => sessionRef = i

\* C2: whenever isRecording is false, all four refs are null and no stream,
\* audio context, processor node or session acquired by the controller is live.
C2_NoPartialTeardown ==
  ~isRecording =>
    /\ AllRefsNull
    /\ \A i \in Calls : /\ stream[i] # "live"
                        /\ ctx[i] # "open"
                        /\ proc[i] # "attached"
                        /\ ~SessionLive(i)

\* C3: a startRecording call made while a session is Open is a no-op: it never
\* acquires a microphone stream and never opens a remote connection.
C3_StartWhileOpenIsNoOp ==
  \A i \in Calls : startedWhileOpen[i] => stream[i] = "none" /\ conn[i] = "none"

\* C4: a startRecording call that failed (getUserMedia or live.connect rejected,
\* or a later step threw) leaves no live stream, no open audio context and no
\* ref pointing at its resources, exactly as stopRecording would.
C4_FailureTearsDown ==
  \A i \in Calls : pc[i] = "failed" =>
    /\ stream[i] # "live"
    /\ ctx[i] # "open"
    /\ streamRef # i
    /\ audioContextRef # i

\* C5: once stopRecording has run for a call, no later onopen or promise
\* completion of that call attaches its processor or installs its session.
C5_NoOpenAfterStop ==
  [][\A i \in Calls : stopCalledFor[i] =>
        /\ proc'[i] = "attached" => proc[i] = "attached"
        /\ sessionRef' = i => sessionRef = i
        /\ streamRef' = i => streamRef = i]_vars

\* C6: a stopRecording that directly follows a stopRecording changes nothing:
\* the first one left isRecording false and all refs null, and the second one
\* releases no resource.
C6_StopTwice ==
  [][(lastOp = "stopRecording" /\ lastOp' = "stopRecording") =>
        /\ ~isRecording /\ AllRefsNull
        /\ ~isRecording' /\ AllRefsNull'
        /\ nRel' = nRel
        /\ lastTeardown' = <<>>]_vars

\* C7: whichever release call fails, stopRecording ends with isRecording false
\* and every ref cleared (every owned resource had its release attempted).
C7_StopAlwaysCloses ==
  lastOp = "stopRecording" => ~isRecording /\ AllRefsNull

\* C8 (as claimed): in a teardown that releases the microphone stream, the
\* processor node and the session, the stream is released first, then the
\* processor, then the session.
C8_CaptureSourceFirst ==
  (lastOp = "stopRecording"
     /\ {"stream", "processor", "session"} \subseteq {lastTeardown[n] : n \in 1..Len(lastTeardown)})
  => /\ PosIn(lastTeardown, "stream") < PosIn(lastTeardown, "processor")
     /\ PosIn(lastTeardown, "processor") < PosIn(lastTeardown, "session")

\* C8 (amended): a stopRecording from Open (all four refs set) closes the
\* session first, then disconnects the processor node, then stops the stream,
\* then closes the audio context; release calls are made in that order up to
\* the first one that throws.
C8_SessionFirstOrder ==
  [][(lastOp' = "stopRecording" /\ AllRefsSet) =>
        /\ IsPrefix(lastTeardown', <<"session", "processor", "stream", "context">>)
        /\ Len(lastTeardown') >= 2
        /\ AllRefsNull' => lastTeardown' = <<"session", "processor", "stream", "context">>]_vars

C8_Witness ==
  /\ lastOp = "stopRecording"
  /\ lastTeardown = <<"session", "processor", "stream", "context">>
  /\ ~isRecording
  /\ AllRefsNull

\* C9: every acquired resource is released exactly once: no release count
\* exceeds one, and no acquired resource is left live where stopRecording can
\* no longer reach it (its ref is assigned only once, on acquisition).
C9_ReleasedExactlyOnce ==
  \A i \in Calls :
    /\ \A k \in Kinds : nRel[i][k] <= 1
    /\ stream[i] = "live" => streamRef = i
    /\ proc[i] = "attached" => processorRef = i
    /\ SessionLive(i) => sessionRef = i

\* C10: the processor node of a call exists only after the onopen of that call,
\* and a send is scheduled or made on a session only after its onopen; a send
\* is made only once the session promise has resolved.
C10_CaptureAfterOpen ==
  \A i \in Calls :
    /\ proc[i] # "none" => opened[i]
    /\ pendingSends[i] + sent[i] > 0 => opened[i]
    /\ sent[i] > 0 => pc[i] = "done"

C10_Witness ==
  \E i \in Calls : sent[i] > 0 /\ opened[i] /\ proc[i] = "attached"

\* ------------------------------------------------------- SpecTranscript
\* One Open session (the state after startRecording, getUserMedia, onopen and
\* the resolution of sessionPromise) receiving server messages.
TranscriptDeltas ==
  { <<"H", "e", "l">>, <<"l", "o", " ">>, <<" ", "w", "o", "r", "l", "d">>,
    <<" ">>, <<"a", " ", "b">> }

InitTranscript ==
  /\ isRecording = TRUE
  /\ sessionRef = 1
  /\ audioContextRef = 1
  /\ streamRef = 1
  /\ processorRef = 1
  /\ sourceText = <<>>
  /\ pc = [i \in Calls |-> IF i = 1 THEN "done" ELSE "idle"]
  /\ stream = [i \in Calls |-> IF i = 1 THEN "live" ELSE "none"]
  /\ ctx = [i \in Calls |-> IF i = 1 THEN "open" ELSE "none"]
  /\ proc = [i \in Calls |-> IF i = 1 THEN "attached" ELSE "none"]
  /\ conn = [i \in Calls |-> IF i = 1 THEN "open" ELSE "none"]
  /\ opened = [i \in Calls |-> i = 1]
  /\ pendingSends = [i \in Calls |-> 0]
  /\ sent = [i \in Calls |-> 0]
  /\ nRel = [i \in Calls |-> [k \in Kinds |-> 0]]
  /\ lastTeardown = <<>>
  /\ stopCalledFor = [i \in Calls |-> FALSE]
  /\ startedWhileOpen = [i \in Calls |-> FALSE]
  /\ blocks = 0
  /\ msgs = 0
  /\ faults = 0
  /\ lastOp = "other"
  /\ delivered = <<>>
  /\ PlayInit
  /\ AppIdle
  /\ CodecIdle

\* callbacks.onmessage of call i, as OnMessage, for up to MaxDeltas messages
TranscriptMessage(i, hasText, newText) ==
  /\ SessionOpen(i)
  /\ msgs < MaxDeltas
  /\ msgs' = msgs + 1
  /\ sourceText' = IF hasText THEN AppendTranscript(sourceText, newText)
                   ELSE sourceText
  /\ delivered' = IF hasText THEN Append(delivered, newText) ELSE delivered
  /\ UNCHANGED <<voiceVars, playVars, codecVars, appVars>>

NextTranscript ==
  \E i \in Calls, hasText \in BOOLEAN, newText \in TranscriptDeltas :
    TranscriptMessage(i, hasText, newText)

SpecTranscript == InitTranscript /\ [][NextTranscript]_vars

\* concatenation of a sequence of sequences
RECURSIVE Flatten(_)
Flatten(ss) == IF ss = <<>> THEN <<>> ELSE Head(ss) \o Flatten(Tail(ss))

\* the words of a text: its maximal runs of characters other than the space
RECURSIVE WordsFrom(_, _)
WordsFrom(s, word) ==
  IF s = <<>> THEN (IF word = <<>> THEN <<>> ELSE <<word>>)
  ELSE IF Head(s) = " "
       THEN (IF word = <<>> THEN <<>> ELSE <<word>>) \o WordsFrom(Tail(s), <<>>)
       ELSE WordsFrom(Tail(s), Append(word, Head(s)))

Words(s) == WordsFrom(s, <<>>)

\* C11: the transcript is the concatenation of the delivered deltas, nothing
\* added or removed ("Hel", "lo ", " world" give "Hello world").
C11_ExactConcatenation == sourceText = Flatten(delivered)

\* C12: every delta-carrying message is applied to the buffer once and in
\* delivery order (the words of the buffer are the words of the deltas, in the
\* order of delivery), and a message without a delta leaves the buffer as it is.
C12_DeliveryOrder ==
  [][/\ Words(sourceText') =
          Flatten([n \in 1..Len(delivered') |-> Words(delivered'[n])])
     /\ delivered' = delivered => sourceText' = sourceText]_vars

C12_Witness ==
  /\ Len(delivered) >= 2
  /\ Words(delivered[1]) # Words(delivered[2])
  /\ msgs > Len(delivered)
  /\ Len(Words(sourceText)) >= 2

\* --------------------------------------------------------- SpecPlayback
\* speakText of services/geminiService.ts: the text-to-speech variant, one
\* slot r per invocation, and the speechSynthesis variant.
Texts == {"", "A", "B"}

Issued(r) == ttsPc[r] # "idle"

Settle(r, ctxMade, src) ==
  /\ ttsPc' = [ttsPc EXCEPT ![r] = "done"]
  /\ outputCtx' = [outputCtx EXCEPT ![r] = ctxMade]
  /\ source' = [source EXCEPT ![r] = src]
  /\ ttsOutcome' = [ttsOutcome EXCEPT ![r] = "fulfilled"]

\* speakText(text) up to its first await: if (!text) return
speakText(r, text) ==
  /\ ~Issued(r)
  /\ \A q \in Speaks : q < r => Issued(q)
  /\ ttsText' = [ttsText EXCEPT ![r] = text]
  /\ IF text = ""
     THEN Settle(r, FALSE, "none")
     ELSE /\ ttsPc' = [ttsPc EXCEPT ![r] = "awaitSynthesis"]
          /\ UNCHANGED <<outputCtx, source, ttsOutcome>>
  /\ UNCHANGED <<response, synth, voiceVars, textVars, codecVars, appVars>>

\* a response without audio still gets its audio context before the failure
SynthesisResolveUnchecked(r, resp) ==
  /\ ttsPc[r] = "awaitSynthesis"
  /\ response' = [response EXCEPT ![r] = resp]
  /\ IF resp = "audio"
     THEN /\ ttsPc' = [ttsPc EXCEPT ![r] = "awaitDecode"]
          /\ outputCtx' = [outputCtx EXCEPT ![r] = TRUE]
          /\ UNCHANGED <<source, ttsOutcome>>
     ELSE Settle(r, TRUE, "none")
  /\ UNCHANGED <<ttsText, synth, voiceVars, textVars, codecVars, appVars>>

\* generateContent resolves: no audio field returns; otherwise the audio
\* context is created and the payload decoded, a malformed payload throwing
\* into the catch block
SynthesisResolve(r, resp) ==
  /\ ttsPc[r] = "awaitSynthesis"
  /\ response' = [response EXCEPT ![r] = resp]
  /\ CASE resp = "noAudio" -> Settle(r, FALSE, "none")
       [] resp = "malformed" -> Settle(r, TRUE, "none")
       [] resp = "audio" ->
            /\ ttsPc' = [ttsPc EXCEPT ![r] = "awaitDecode"]
            /\ outputCtx' = [outputCtx EXCEPT ![r] = TRUE]
            /\ UNCHANGED <<source, ttsOutcome>>
  /\ UNCHANGED <<ttsText, synth, voiceVars, textVars, codecVars, appVars>>

\* generateContent rejects: catch (error) { console.error(...) }
SynthesisReject(r) ==
  /\ ttsPc[r] = "awaitSynthesis"
  /\ response' = [response EXCEPT ![r] = "failed"]
  /\ Settle(r, FALSE, "none")
  /\ UNCHANGED <<ttsText, synth, voiceVars, textVars, codecVars, appVars>>

\* after await decodeAudioData: createBufferSource, connect, source.start()
DecodeDone(r) ==
  /\ ttsPc[r] = "awaitDecode"
  /\ Settle(r, TRUE, "playing")
  /\ UNCHANGED <<ttsText, response, synth, voiceVars, textVars, codecVars, appVars>>

\* the buffer of call r has played to its end
PlaybackEnded(r) ==
  /\ source[r] = "playing"
  /\ source' = [source EXCEPT ![r] = "ended"]
  /\ UNCHANGED <<ttsPc, ttsText, outputCtx, ttsOutcome, response, synth,
                 voiceVars, textVars, codecVars, appVars>>

\* the speechSynthesis variant: cancel(), then speak(utterance)
speakTextSynthesis(text) ==
  /\ synth' = IF text = "" THEN synth ELSE <<text>>
  /\ synth' # synth
  /\ UNCHANGED <<ttsPc, ttsText, outputCtx, source, ttsOutcome, response,
                 voiceVars, textVars, codecVars, appVars>>

\* the utterance being spoken ends
UtteranceEnd ==
  /\ synth # <<>>
  /\ synth' = Tail(synth)
  /\ UNCHANGED <<ttsPc, ttsText, outputCtx, source, ttsOutcome, response,
                 voiceVars, textVars, codecVars, appVars>>

NextPlayback ==
  \/ \E r \in Speaks, text \in Texts : speakText(r, text)
  \/ \E r \in Speaks, resp \in {"audio", "noAudio", "malformed"} :
       SynthesisResolve(r, resp)
  \/ \E r \in Speaks : SynthesisReject(r)
  \/ \E r \in Speaks : DecodeDone(r)
  \/ \E r \in Speaks : PlaybackEnded(r)
  \/ \E text \in Texts : speakTextSynthesis(text)
  \/ UtteranceEnd

SpecPlayback == Init /\ [][NextPlayback]_vars

Playing == {r \in Speaks : source[r] = "playing"}

\* C13: playback is stop-then-replace: at most one buffer is playing, and once
\* speakText has been issued for a later payload no earlier payload's buffer
\* is playing (it is cancelled, neither mixed with nor queued before the later).
C13_StopThenReplace ==
  /\ Cardinality(Playing) <= 1
  /\ \A r, q \in Speaks :
       r < q /\ Issued(q) /\ ttsText[q] # "" => source[r] # "playing"
  /\ Len(synth) <= 1

\* C14: speakText with an empty text, or whose synthesis response has no audio
\* field, creates no audio context, creates and starts no buffer source, and
\* its promise is not rejected.
C14_NothingSubmitted ==
  \A r \in Speaks :
    Issued(r) /\ (ttsText[r] = "" \/ response[r] = "noAudio") =>
      /\ ~outputCtx[r]
      /\ source[r] = "none"
      /\ ttsOutcome[r] = "fulfilled"

C14_Witness ==
  \E r, q \in Speaks :
    /\ ttsPc[r] = "done" /\ ttsText[r] = ""
    /\ ttsPc[q] = "done" /\ response[q] = "noAudio"

\* ------------------------------------------------------------ SpecClamp
\* createAudioBlob and encodeAudio of part_002:33-52.  A sample is the
\* float n / SampleDen; every numerator used is exact in a Float32Array.
SampleDen == 65536
Scale == 32768
Int16Modulus == 65536
Byte == 256

Samples ==
  { -131072, -98304, -65536, -65535, -32768, -3, -1, 0, 1, 3, 6554, 32768,
    65535, 65536, 98304, 131072 }

\* truncation toward zero of a / b, b > 0 (ToNumber, then ToInt16's truncate)
TruncDiv(a, b) == IF a >= 0 THEN a \div b ELSE -((-a) \div b)

\* ToInt16 of an integer: modulo 2^16, into -32768..32767
ToInt16(v) ==
  LET m == v % Int16Modulus
  IN IF m >= Int16Modulus \div 2 THEN m - Int16Modulus ELSE m

\* int16[i] = data[i] * 32768: (n / SampleDen) * Scale is n / (SampleDen / Scale)
StoreSample(n) == ToInt16(TruncDiv(n, SampleDen \div Scale))

\* new Uint8Array(int16.buffer): two bytes per sample, low byte first
RECURSIVE BufferBytes(_)
BufferBytes(ints) ==
  IF ints = <<>> THEN <<>>
  ELSE LET u == Head(ints) % Int16Modulus
       IN <<u % Byte, u \div Byte>> \o BufferBytes(Tail(ints))

\* the base64 alphabet of btoa / atob
B64 ==
  << "A", "B", "C", "D", "E", "F", "G", "H", "I", "J", "K", "L", "M",
     "N", "O", "P", "Q", "R", "S", "T", "U", "V", "W", "X", "Y", "Z",
     "a", "b", "c", "d", "e", "f", "g", "h", "i", "j", "k", "l", "m",
     "n", "o", "p", "q", "r", "s", "t", "u", "v", "w", "x", "y", "z",
     "0", "1", "2", "3", "4", "5", "6", "7", "8", "9", "+", "/" >>

\* btoa of the binary string whose character codes are bs
RECURSIVE btoa(_)
btoa(bs) ==
  IF bs = <<>> THEN <<>>
  ELSE IF Len(bs) = 1
  THEN << B64[(bs[1] \div 4) + 1], B64[(bs[1] % 4) * 16 + 1], "=", "=" >>
  ELSE IF Len(bs) = 2
  THEN << B64[(bs[1] \div 4) + 1],
          B64[(bs[1] % 4) * 16 + (bs[2] \div 16) + 1],
          B64[(bs[2] % 16) * 4 + 1], "=" >>
  ELSE << B64[(bs[1] \div 4) + 1],
          B64[(bs[1] % 4) * 16 + (bs[2] \div 16) + 1],
          B64[(bs[2] % 16) * 4 + (bs[3] \div 64) + 1],
          B64[(bs[3] % 64) + 1] >> \o btoa(SubSeq(bs, 4, Len(bs)))

\* binary += String.fromCharCode(bytes[i]) for every byte; return btoa(binary)
encodeAudio(bs) == btoa([i \in 1..Len(bs) |-> bs[i]])

\* createAudioBlob(data): the Int16Array, its bytes and their base64 text
createAudioBlob ==
  /\ codecPc = "samples"
  /\ codecPc' = "blob"
  /\ int16' = [i \in 1..Len(data) |-> StoreSample(data[i])]
  /\ bytes' = BufferBytes(int16')
  /\ encoded' = encodeAudio(bytes')
  /\ UNCHANGED <<data, decoded, pcm, numChannels, audioBuffer,
                 voiceVars, textVars, playVars, appVars>>

InitClamp ==
  /\ VoiceInit
  /\ PlayInit
  /\ AppIdle
  /\ codecPc = "samples"
  /\ data \in UNION { [1..n -> Samples] : n \in 1..MaxSamples }
  /\ int16 = <<>>
  /\ bytes = <<>>
  /\ encoded = <<>>
  /\ decoded = [ok |-> TRUE, bytes |-> <<>>]
  /\ pcm = <<>>
  /\ numChannels = 1
  /\ audioBuffer = [status |-> "none"]

NextClamp == createAudioBlob

SpecClamp == InitClamp /\ [][NextClamp]_vars

\* clamp(x, -1, 1) of the sample n / SampleDen, as a numerator
Clamp(n) == IF n > SampleDen THEN SampleDen
            ELSE IF n < -SampleDen THEN -SampleDen ELSE n

\* round(a / b), b > 0 and even, halves rounded up as Math.round does
Round(a, b) == (a + (b \div 2)) \div b

\* C15: for every input sample x the encoded 16-bit value is
\* round(clamp(x, -1, 1) * 32767); out-of-range samples are clamped and no
\* input wraps to a value of the opposite sign.
C15_ClampLaw ==
  codecPc = "blob" =>
    \A i \in 1..Len(data) :
      /\ int16[i] = Round(Clamp(data[i]) * (Scale - 1), SampleDen)
      /\ data[i] > 0 => int16[i] >= 0
      /\ data[i] < 0 => int16[i] <= 0

\* ----------------------------------------------------------- SpecBase64
\* encodeAudio (part_002:33-40) followed by decode (geminiService.ts:43-51).
ByteValues == {0, 1, 63, 64, 128, 255}

B64Index(c) == (CHOOSE k \in 1..Len(B64) : B64[k] = c) - 1

InAlphabet(c) == \E k \in 1..Len(B64) : B64[k] = c

\* the bytes of a sequence of sextets; two or three left over give one or two
RECURSIVE SextetBytes(_)
SextetBytes(q) ==
  IF Len(q) < 2 THEN <<>>
  ELSE IF Len(q) = 2 THEN << q[1] * 4 + (q[2] \div 16) >>
  ELSE IF Len(q) = 3
  THEN << q[1] * 4 + (q[2] \div 16), (q[2] % 16) * 16 + (q[3] \div 4) >>
  ELSE << q[1] * 4 + (q[2] \div 16), (q[2] % 16) * 16 + (q[3] \div 4),
          (q[3] % 4) * 64 + q[4] >> \o SextetBytes(SubSeq(q, 5, Len(q)))

\* atob: removes one or two trailing "=" of a text whose length is a multiple
\* of four, fails on a length of 1 modulo 4 or a character outside the
\* alphabet, and gives the character codes of the decoded binary string
atob(str) ==
  LET n == Len(str)
      cut == IF n > 0 /\ n % 4 = 0 /\ str[n] = "="
             THEN (IF str[n - 1] = "=" THEN 2 ELSE 1)
             ELSE 0
      body == SubSeq(str, 1, n - cut)
  IN IF Len(body) % 4 = 1 \/ \E k \in 1..Len(body) : ~InAlphabet(body[k])
     THEN [ok |-> FALSE, bytes |-> <<>>]
     ELSE [ok |-> TRUE,
           bytes |-> SextetBytes([k \in 1..Len(body) |-> B64Index(body[k])])]

\* the loop stops one character early: the last byte stays 0
decodeShort(base64) ==
  LET bin == atob(base64)
  IN [ok |-> bin.ok,
      bytes |-> [k \in 1..Len(bin.bytes) |->
                   IF k < Len(bin.bytes) THEN bin.bytes[k] % Byte ELSE 0]]

\* decode(base64): bytes[i] = binaryString.charCodeAt(i) into a Uint8Array
decode(base64) ==
  LET bin == atob(base64)
  IN [ok |-> bin.ok,
      bytes |-> [k \in 1..Len(bin.bytes) |-> bin.bytes[k] % Byte]]

InitBase64 ==
  /\ VoiceInit
  /\ PlayInit
  /\ AppIdle
  /\ codecPc = "bytes"
  /\ data = <<>>
  /\ int16 = <<>>
  /\ bytes \in UNION { [1..n -> ByteValues] : n \in 0..MaxBytes }
  /\ encoded = <<>>
  /\ decoded = [ok |-> TRUE, bytes |-> <<>>]
  /\ pcm = <<>>
  /\ numChannels = 1
  /\ audioBuffer = [status |-> "none"]

\* encodeAudio(bytes)
EncodeAudioCall ==
  /\ codecPc = "bytes"
  /\ codecPc' = "encoded"
  /\ encoded' = encodeAudio(bytes)
  /\ UNCHANGED <<data, int16, bytes, decoded, pcm, numChannels, audioBuffer,
                 voiceVars, textVars, playVars, appVars>>

\* decode(encoded)
DecodeCall ==
  /\ codecPc = "encoded"
  /\ codecPc' = "decoded"
  /\ decoded' = decode(encoded)
  /\ UNCHANGED <<data, int16, bytes, encoded, pcm, numChannels, audioBuffer,
                 voiceVars, textVars, playVars, appVars>>

NextBase64 == EncodeAudioCall \/ DecodeCall

SpecBase64 == InitBase64 /\ [][NextBase64]_vars

\* C16: for every byte sequence b, the empty one included, decoding the
\* base64 text of b succeeds and gives back b byte for byte.
C16_RoundTrip ==
  codecPc = "decoded" => decoded.ok /\ decoded.bytes = bytes

C16_Witness ==
  /\ codecPc = "decoded"
  /\ Len(bytes) = MaxBytes
  /\ bytes[Len(bytes)] # 0
  /\ encoded[Len(encoded)] = "="

\* ----------------------------------------------------------- SpecDecode
\* decodeAudioData of services/geminiService.ts:53-70.
PcmByteValues == {0, 1, 255}

\* new Int16Array(data.buffer): the elements of a buffer of even length, low
\* byte first
Int16View(bs) ==
  [k \in 1..(Len(bs) \div 2) |-> ToInt16(bs[2 * k - 1] + Byte * bs[2 * k])]

\* decodeAudioData(data, ctx, sampleRate, numChannels): a RangeError for a
\* buffer of odd length; createBuffer takes the integer part of frameCount and
\* throws NotSupportedError for a length of 0; channelData holds the
\* numerators of dataInt16[...] / 32768.0
decodeAudioData(bs, ch) ==
  IF Len(bs) % 2 # 0 THEN [status |-> "RangeError"]
  ELSE LET dataInt16 == Int16View(bs)
           length == Len(dataInt16) \div ch
       IN IF length = 0 THEN [status |-> "NotSupportedError"]
          ELSE [status |-> "buffer",
                numberOfChannels |-> ch,
                length |-> length,
                channelData |->
                  [c \in 0..(ch - 1) |->
                     [k \in 0..(length - 1) |-> dataInt16[k * ch + c + 1]]]]

InitDecode ==
  /\ VoiceInit
  /\ PlayInit
  /\ AppIdle
  /\ codecPc = "pcm"
  /\ data = <<>>
  /\ int16 = <<>>
  /\ bytes = <<>>
  /\ encoded = <<>>
  /\ decoded = [ok |-> TRUE, bytes |-> <<>>]
  /\ pcm \in UNION { [1..n -> PcmByteValues] : n \in 0..MaxPcmBytes }
  /\ numChannels \in 1..MaxChannels
  /\ audioBuffer = [status |-> "none"]

\* await decodeAudioData(pcm, outputAudioContext, 24000, numChannels)
DecodeAudioDataCall ==
  /\ codecPc = "pcm"
  /\ codecPc' = "settled"
  /\ audioBuffer' = decodeAudioData(pcm, numChannels)
  /\ UNCHANGED <<data, int16, bytes, encoded, decoded, pcm, numChannels,
                 voiceVars, textVars, playVars, appVars>>

NextDecode == DecodeAudioDataCall

SpecDecode == InitDecode /\ [][NextDecode]_vars

\* C17: decodeAudioData fails if and only if the byte length is not a multiple
\* of 2 * channels, and otherwise yields a buffer of length / (2 * channels)
\* frames.
C17_FailsIffMisaligned ==
  codecPc = "settled" =>
    /\ audioBuffer.status # "buffer" <=> Len(pcm) % (2 * numChannels) # 0
    /\ audioBuffer.status = "buffer" =>
         audioBuffer.length * 2 * numChannels = Len(pcm)

\* ---------------------------------------------- properties of Spec, continued
\* the session of call i has ended or failed
Ended(c) == c \in {"errored", "closing", "closed"}

\* C18: a session error or close is never retried automatically.  live.connect
\* is called for call i only by the continuation of startRecording call i
\* after getUserMedia, once; a step in which a session errors or closes starts
\* no recording and no connection; an ended session never reconnects; and the
\* connect attempts never outnumber the start requests.
C18_NoAutomaticRetry ==
  [][/\ \A i \in Calls :
          /\ conn[i] = "none" /\ conn'[i] # "none" =>
               pc[i] = "awaitMedia" /\ pc'[i] = "awaitConnect"
          /\ conn[i] \notin {"none", "connecting"} =>
               conn'[i] \notin {"none", "connecting"}
          /\ Ended(conn[i]) => Ended(conn'[i])
     /\ (\E i \in Calls : Ended(conn'[i]) /\ ~Ended(conn[i])) =>
          \A j \in Calls : /\ pc[j] = "idle" => pc'[j] = "idle"
                           /\ conn[j] = "none" => conn'[j] = "none"
     /\ Cardinality({i \in Calls : conn'[i] # "none"}) <=
          Cardinality({i \in Calls : pc'[i] # "idle"})]_vars

C18_Witness ==
  /\ \E i \in Calls : conn[i] = "errored" /\ pc[i] = "done"
  /\ \E i \in Calls : conn[i] = "closed" /\ pc[i] = "done"
  /\ \A i \in Calls : pc[i] # "idle"

\* how the promise returned by startRecording call i has settled: the whole
\* body is inside try/catch and the catch block does not rethrow
StartOutcome(i) ==
  IF pc[i] \in {"done", "failed"} THEN "fulfilled" ELSE "pending"

\* C19: when getUserMedia rejects, the caller of startRecording gets an error
\* outcome, and the controller ends with no session and no resource held.
C19_MicFailureSurfaced ==
  [][\A i \in Calls :
       pc[i] = "awaitMedia" /\ pc'[i] = "failed" /\ stream'[i] = "none" =>
         /\ StartOutcome(i)' = "rejected"
         /\ ~isRecording'
         /\ AllRefsNull']_vars

\* f[1] + ... + f[n]
RECURSIVE SumTo(_, _)
SumTo(f, n) == IF n = 0 THEN 0 ELSE f[n] + SumTo(f, n - 1)

\* C20: every capture callback produces exactly one send of its own block,
\* none dropped or duplicated, and at most the send of the latest block is
\* waiting for the session promise.
C20_OneSendPerBlock ==
  /\ \A i \in Calls : pendingSends[i] <= 1
  /\ \A i \in Calls : pendingSends[i] > 0 => pc[i] = "awaitConnect"
  /\ SumTo(sent, MaxCalls) + SumTo(pendingSends, MaxCalls) = blocks

\* C21: once stopRecording has run to its end for the session of call i (it
\* has disconnected the processor of call i and nothing has thrown), no
\* sendRealtimeInput call is made for that session, the sends scheduled on
\* sessionPromise before the stop included.
C21_NoSendAfterStop ==
  [][\A i \in Calls :
       stopCalledFor[i] /\ proc[i] = "disconnected" /\ faults' = 0 =>
         sent'[i] = sent[i]]_vars

\* C22: the source text is written by onmessage and never by the capture
\* callback: an onaudioprocess step leaves the source text, isRecording and
\* all refs unchanged, and of the controller's steps only an onmessage step
\* changes the source text.
C22_CaptureLeavesTranscript ==
  [][/\ blocks' # blocks => UNCHANGED <<sourceText, isRecording, refs>>
     /\ sourceText' # sourceText => msgs' # msgs]_vars

C22_Witness ==
  /\ blocks > 0
  /\ sourceText # <<>>
  /\ \E i \in Calls : sent[i] > 0

\* the 16-bit sample at index n (from 0) of a byte array, low byte first
Int16At(bs, n) ==
  LET u == bs[2 * n + 1] + Byte * bs[2 * n + 2]
  IN IF u >= Int16Modulus \div 2 THEN u - Int16Modulus ELSE u

\* C23: the decoded buffer has len(bytes) / 2 / channels frames per channel,
\* sample i of channel c is the 16-bit input sample at index i * channels + c,
\* and every input sample lands in exactly one channel position.
C23_Deinterleave ==
  codecPc = "settled" /\ audioBuffer.status = "buffer" =>
    /\ audioBuffer.length * 2 * numChannels = Len(pcm)
    /\ \A c \in 0..(numChannels - 1), k \in 0..(audioBuffer.length - 1) :
         audioBuffer.channelData[c][k] = Int16At(pcm, k * numChannels + c)
    /\ \A n \in 0..((Len(pcm) \div 2) - 1) :
         Cardinality({ck \in (0..(numChannels - 1)) \X (0..(audioBuffer.length - 1)) :
                        ck[2] * numChannels + ck[1] = n}) = 1

\* -------------------------------------------------------- SpecTranslate
\* handleTranslate, the debounce effect and the history effects of
\* part_002:78-143, with the debounce effect of App.tsx:481-489 as the variant
\* that checks isProcessingFile (tracksFile).
HistoryCap == 20
MinAutoLength == 5

SourceTexts ==
  { <<>>, <<" ">>, <<"h", "e", "l", "l", "o", "1">>,
    <<"h", "e", "l", "l", "o", "2">> }
SourceLangChoices == {"auto", "en"}
TargetLangChoices == {"es", "fr"}
DetectedCodes == {"de"}

\* the first n elements of a sequence: Array.prototype.slice(0, n)
Slice(q, n) == SubSeq(q, 1, IF Len(q) < n THEN Len(q) ELSE n)

\* the text translateText resolves with
Translation(text, tgt) == <<"[", tgt, "]">> \o text

\* the text the translateText variants that catch the error resolve with
ErrorMessage == <<"Translation failed.">>

\* what the timer callback of the debounce effect holds in its closure
TimerClosure(text, src, tgt, rec, file) ==
  [text |-> text, src |-> src, tgt |-> tgt, rec |-> rec, file |-> file]

\* the debounce effect without its cleanup: the earlier timer stays pending
DebounceEffectNoCleanup(pending, text, src, tgt, rec, file) ==
  Append(pending, TimerClosure(text, src, tgt, rec, file))

\* the debounce effect re-run: clearTimeout of the pending timer, then a new
\* setTimeout
DebounceEffect(pending, text, src, tgt, rec, file) ==
  <<TimerClosure(text, src, tgt, rec, file)>>

\* useEffect(() => localStorage.setItem(..., history.slice(0, 20)), [history])
PersistEffect(h) == Slice(h, HistoryCap)

\* the new item put in front without the slice
PushHistoryUnbounded(prev, item) == <<item>> \o prev

\* setHistory(prev => [newHistoryItem, ...prev].slice(0, 20))
PushHistory(prev, item) == Slice(<<item>> \o prev, HistoryCap)

NextRequest == CHOOSE r \in Requests :
  requests[r].stage = "idle" /\ \A q \in Requests : q < r => requests[q].stage # "idle"

InFlight == {r \in Requests : requests[r].stage \in {"detect", "translate"}}

\* handleTranslate() of the render whose closure holds text, src and tgt, up
\* to its first await
handleTranslate(text, src, tgt, auto) ==
  IF Trim(text) = <<>>
  THEN /\ translatedText' = <<>>
       /\ detectedLang' = "null"
       /\ UNCHANGED <<isTranslating, requests>>
  ELSE /\ \E r \in Requests : requests[r].stage = "idle"
       /\ isTranslating' = TRUE
       /\ requests' = [requests EXCEPT ![NextRequest] =
            [stage |-> IF src = "auto" THEN "detect" ELSE "translate",
             text |-> text, src |-> src, tgt |-> tgt, auto |-> auto]]
       /\ detectedLang' = IF src = "auto" THEN detectedLang ELSE "null"
       /\ UNCHANGED translatedText

\* the Translate button
ManualTranslate ==
  /\ handleTranslate(sourceText, sourceLang, targetLang, FALSE)
  /\ UNCHANGED <<sourceLang, targetLang, isProcessingFile, history, stored,
                 timers, edits, tracksFile, auxVars>>
  /\ UNCHANGED <<voiceVars, textVars, playVars, codecVars>>

\* the debounce timer fires
TimerFire ==
  /\ timers # <<>>
  /\ timers' = Tail(timers)
  /\ LET c == Head(timers)
     IN IF Len(c.text) > MinAutoLength /\ ~c.rec /\ (tracksFile => ~c.file)
        THEN handleTranslate(c.text, c.src, c.tgt, TRUE)
        ELSE UNCHANGED <<translatedText, detectedLang, isTranslating, requests>>
  /\ UNCHANGED <<sourceLang, targetLang, isProcessingFile, history, stored,
                 edits, tracksFile, auxVars>>
  /\ UNCHANGED <<voiceVars, textVars, playVars, codecVars>>

\* the source textarea's onChange
EditSource(text) ==
  /\ edits < MaxEdits
  /\ edits' = edits + 1
  /\ text # sourceText
  /\ sourceText' = text
  /\ timers' = DebounceEffect(timers, text, sourceLang, targetLang,
                              isRecording, isProcessingFile)
  /\ UNCHANGED <<translatedText, sourceLang, targetLang, detectedLang,
                 isTranslating, isProcessingFile, history, stored, requests,
                 tracksFile, auxVars>>
  /\ UNCHANGED <<msgs, delivered, voiceVars, playVars, codecVars>>

\* the target language select
SelectTarget(l) ==
  /\ edits < MaxEdits
  /\ edits' = edits + 1
  /\ l # targetLang
  /\ targetLang' = l
  /\ timers' = DebounceEffect(timers, sourceText, sourceLang, l,
                              isRecording, isProcessingFile)
  /\ UNCHANGED <<translatedText, sourceLang, detectedLang, isTranslating,
                 isProcessingFile, history, stored, requests, tracksFile, auxVars>>
  /\ UNCHANGED <<voiceVars, textVars, playVars, codecVars>>

\* the source language select: the effect of part_002 does not depend on it,
\* the effect of App.tsx does through handleTranslate
SelectSource(l) ==
  /\ edits < MaxEdits
  /\ edits' = edits + 1
  /\ l # sourceLang
  /\ sourceLang' = l
  /\ timers' = IF tracksFile
               THEN DebounceEffect(timers, sourceText, l, targetLang,
                                   isRecording, isProcessingFile)
               ELSE timers
  /\ UNCHANGED <<translatedText, targetLang, detectedLang, isTranslating,
                 isProcessingFile, history, stored, requests, tracksFile, auxVars>>
  /\ UNCHANGED <<voiceVars, textVars, playVars, codecVars>>

\* isRecording changes (startRecording, stopRecording)
RecordingChange ==
  /\ edits < MaxEdits
  /\ edits' = edits + 1
  /\ isRecording' = ~isRecording
  /\ timers' = DebounceEffect(timers, sourceText, sourceLang, targetLang,
                              ~isRecording, isProcessingFile)
  /\ UNCHANGED <<translatedText, sourceLang, targetLang, detectedLang,
                 isTranslating, isProcessingFile, history, stored, requests,
                 tracksFile, auxVars>>
  /\ UNCHANGED <<captureVars, textVars, playVars, codecVars>>

\* handleFileUpload up to its first await
FileUploadStart ==
  /\ edits < MaxEdits
  /\ edits' = edits + 1
  /\ ~isProcessingFile
  /\ isProcessingFile' = TRUE
  /\ timers' = IF tracksFile
               THEN DebounceEffect(timers, sourceText, sourceLang, targetLang,
                                   isRecording, TRUE)
               ELSE timers
  /\ UNCHANGED <<translatedText, sourceLang, targetLang, detectedLang,
                 isTranslating, history, stored, requests, tracksFile, auxVars>>
  /\ UNCHANGED <<voiceVars, textVars, playVars, codecVars>>

\* handleFileUpload after its await: the text of the file, or an error
FileUploadDone(ok, text) ==
  /\ isProcessingFile
  /\ isProcessingFile' = FALSE
  /\ sourceText' = IF ok THEN text ELSE sourceText
  /\ timers' = IF tracksFile \/ sourceText' # sourceText
               THEN DebounceEffect(timers, sourceText', sourceLang, targetLang,
                                   isRecording, FALSE)
               ELSE timers
  /\ UNCHANGED <<translatedText, sourceLang, targetLang, detectedLang,
                 isTranslating, history, stored, requests, edits, tracksFile, auxVars>>
  /\ UNCHANGED <<msgs, delivered, voiceVars, playVars, codecVars>>

\* detectLanguage settles for request r; thrown: the variant of
\* geminiService.ts:25-37, which does not catch
DetectSettle(r, thrown, code) ==
  /\ requests[r].stage = "detect"
  /\ IF thrown
     THEN /\ requests' = [requests EXCEPT ![r].stage = "failed"]
          /\ isTranslating' = FALSE
          /\ UNCHANGED detectedLang
     ELSE /\ requests' = [requests EXCEPT ![r].stage = "translate", ![r].src = code]
          /\ detectedLang' = code
          /\ UNCHANGED isTranslating
  /\ UNCHANGED <<translatedText, sourceLang, targetLang, isProcessingFile,
                 history, stored, timers, edits, tracksFile, auxVars>>
  /\ UNCHANGED <<voiceVars, textVars, playVars, codecVars>>

\* what is done with the text translateText resolved with
ShowResult(r, result) ==
  /\ translatedText' = result
  /\ history' = PushHistory(history,
       [sourceText |-> requests[r].text, translatedText |-> result,
        sourceLang |-> requests[r].src, targetLang |-> requests[r].tgt])
  /\ stored' = PersistEffect(history')
  /\ requests' = [requests EXCEPT ![r].stage = "done"]
  /\ isTranslating' = FALSE

\* translateText settles for request r.  "ok": the translation; "message":
\* the request failed in a variant that catches and resolves with an error
\* text (part_000:21-30, aiService.js:16-25); "thrown": the request failed in
\* the variant that does not catch (geminiService.ts:5-23)
TranslateSettle(r, outcome) ==
  /\ requests[r].stage = "translate"
  /\ CASE outcome = "ok" ->
            ShowResult(r, Translation(requests[r].text, requests[r].tgt))
       [] outcome = "message" -> ShowResult(r, ErrorMessage)
       [] outcome = "thrown" ->
            /\ requests' = [requests EXCEPT ![r].stage = "failed"]
            /\ isTranslating' = FALSE
            /\ UNCHANGED <<translatedText, history, stored>>
  /\ UNCHANGED <<sourceLang, targetLang, detectedLang, isProcessingFile,
                 timers, edits, tracksFile, auxVars>>
  /\ UNCHANGED <<voiceVars, textVars, playVars, codecVars>>

InitTranslate ==
  /\ VoiceInit
  /\ PlayInit
  /\ CodecIdle
  /\ translatedText = <<>>
  /\ sourceLang = "auto"
  /\ targetLang = "es"
  /\ detectedLang = "null"
  /\ isTranslating = FALSE
  /\ isProcessingFile = FALSE
  /\ history = <<>>
  /\ stored = <<>>
  /\ tracksFile \in BOOLEAN
  /\ timers = DebounceEffect(<<>>, <<>>, "auto", "es", FALSE, FALSE)
  /\ requests = [r \in Requests |-> IdleRequest]
  /\ edits = 0
  /\ AuxIdle

NextTranslate ==
  \/ ManualTranslate
  \/ TimerFire
  \/ \E text \in SourceTexts : EditSource(text)
  \/ \E l \in TargetLangChoices : SelectTarget(l)
  \/ \E l \in SourceLangChoices : SelectSource(l)
  \/ RecordingChange
  \/ FileUploadStart
  \/ \E ok \in BOOLEAN, text \in SourceTexts : FileUploadDone(ok, text)
  \/ \E r \in Requests, thrown \in BOOLEAN, code \in DetectedCodes :
       DetectSettle(r, thrown, code)
  \/ \E r \in Requests, outcome \in {"ok", "message", "thrown"} :
       TranslateSettle(r, outcome)

SpecTranslate == InitTranslate /\ [][NextTranslate]_vars

IssuedRequests == {r \in Requests : requests[r].stage # "idle"}

\* the request issued last
LastIssued == CHOOSE r \in IssuedRequests : \A q \in IssuedRequests : q <= r

\* C24: once every overlapping translation request has finished, the text
\* shown is the result of the request issued last: a slower response to an
\* older request never overwrites a newer one.
C24_LatestWins ==
  (/\ InFlight = {}
   /\ IssuedRequests # {}
   /\ requests[LastIssued].stage = "done"
   /\ translatedText # <<>>)
  => translatedText \in
       { Translation(requests[LastIssued].text, requests[LastIssued].tgt),
         ErrorMessage }

\* C25: isTranslating is true exactly in the states where at least one
\* translation request is in flight.
C25_SpinnerMatchesInFlight == isTranslating <=> InFlight # {}

\* C26: the debounce timer starts no automatic translation while isRecording
\* is true (nor, where the effect checks it, while a file is processed); a
\* change of the source text replaces the pending timer by one for the new
\* text, so at most one timer is pending and an automatic translation uses it
\* up.
C26_DebounceGuard ==
  [][/\ Len(timers') <= 1
     /\ (\E r \in Requests : /\ requests[r].stage = "idle"
                             /\ requests'[r].stage # "idle"
                             /\ requests'[r].auto)
        => /\ ~isRecording
           /\ tracksFile => ~isProcessingFile
           /\ timers # <<>> /\ timers' = <<>>
     /\ sourceText' # sourceText =>
          Len(timers') = 1 /\ timers'[1].text = sourceText']_vars

C26_Witness ==
  /\ \E r \in Requests : requests[r].auto /\ requests[r].stage # "idle"
  /\ edits = MaxEdits
  /\ timers = <<>>

\* C28: a translation that fails adds no entry to the history and its error
\* message is not shown as the translation.
C28_FailureLeavesNoTrace ==
  /\ translatedText # ErrorMessage
  /\ \A k \in 1..Len(history) : history[k].translatedText # ErrorMessage

\* ---------------------------------------------------------- SpecHistory
\* the history list and its copy in localStorage (part_002:78-87, 121-129,
\* 487), an item being the Date.now() it was made at
InitHistory == Init

\* handleTranslate after a successful translateText: the item is put in front
AddHistoryItem ==
  /\ clock < MaxEntries
  /\ clock' = clock + 1
  /\ history' = PushHistory(history, [timestamp |-> clock + 1])
  /\ stored' = PersistEffect(history')
  /\ UNCHANGED <<translatedText, sourceLang, targetLang, detectedLang,
                 isTranslating, isProcessingFile, timers, requests, edits,
                 tracksFile, speechVars>>
  /\ UNCHANGED <<voiceVars, textVars, playVars, codecVars>>

\* the bin button of the archive: setHistory([])
ClearHistory ==
  /\ history # <<>>
  /\ history' = <<>>
  /\ stored' = PersistEffect(history')
  /\ UNCHANGED <<translatedText, sourceLang, targetLang, detectedLang,
                 isTranslating, isProcessingFile, timers, requests, edits,
                 tracksFile, clock, speechVars>>
  /\ UNCHANGED <<voiceVars, textVars, playVars, codecVars>>

\* the page is loaded again: history starts empty and the mount effect sets
\* it to the saved copy, which the history effect then saves
ReloadPage ==
  /\ history' = stored
  /\ stored' = PersistEffect(history')
  /\ UNCHANGED <<translatedText, sourceLang, targetLang, detectedLang,
                 isTranslating, isProcessingFile, timers, requests, edits,
                 tracksFile, clock, speechVars>>
  /\ UNCHANGED <<voiceVars, textVars, playVars, codecVars>>

NextHistory == AddHistoryItem \/ ClearHistory \/ ReloadPage

SpecHistory == InitHistory /\ [][NextHistory]_vars

\* C27: the history holds at most HistoryCap entries, newest first, the
\* oldest dropped, and the saved copy never exceeds the same cap.
C27_HistoryCapped ==
  /\ Len(history) <= HistoryCap
  /\ Len(stored) <= HistoryCap
  /\ \A k \in 1..Len(history) : history[k].timestamp = clock - (k - 1)

C27_Witness ==
  /\ Len(history) = HistoryCap
  /\ Len(stored) = HistoryCap
  /\ clock > HistoryCap

\* ----------------------------------------------------------- SpecSpeech
\* recognition.onresult of index.tsx:40-57 (continuous, interimResults): the
\* recognizer adds a result, revises its last interim result or makes it
\* final, and reports the first changed index as event.resultIndex.
Segments == { <<"a">>, <<"a", "b">>, <<"c">> }

\* transcript += event.results[i][0].transcript for i from resultIndex
RECURSIVE TranscriptFrom(_, _)
TranscriptFrom(rs, resultIndex) ==
  IF resultIndex > Len(rs) THEN <<>>
  ELSE rs[resultIndex].transcript \o TranscriptFrom(rs, resultIndex + 1)

\* setSourceText(prev => prev + transcript)
OnResult(prev, rs, resultIndex) == prev \o TranscriptFrom(rs, resultIndex)

LastIsInterim == results # <<>> /\ ~results[Len(results)].isFinal

\* a new result is recognized, interim or final at once
ResultAdded(seg, final) ==
  /\ events < MaxEvents
  /\ ~LastIsInterim
  /\ events' = events + 1
  /\ results' = Append(results, [transcript |-> seg, isFinal |-> final])
  /\ sourceText' = OnResult(sourceText, results', Len(results'))
  /\ UNCHANGED <<translatedText, sourceLang, targetLang, detectedLang,
                 isTranslating, isProcessingFile, history, stored, timers,
                 requests, edits, tracksFile, clock>>
  /\ UNCHANGED <<msgs, delivered, voiceVars, playVars, codecVars>>

\* the last interim result is revised, or made final
ResultRevised(seg, final) ==
  /\ events < MaxEvents
  /\ LastIsInterim
  /\ events' = events + 1
  /\ results' = [results EXCEPT ![Len(results)] =
                   [transcript |-> seg, isFinal |-> final]]
  /\ sourceText' = OnResult(sourceText, results', Len(results'))
  /\ UNCHANGED <<translatedText, sourceLang, targetLang, detectedLang,
                 isTranslating, isProcessingFile, history, stored, timers,
                 requests, edits, tracksFile, clock>>
  /\ UNCHANGED <<msgs, delivered, voiceVars, playVars, codecVars>>

NextSpeech ==
  \/ \E seg \in Segments, final \in BOOLEAN : ResultAdded(seg, final)
  \/ \E seg \in Segments, final \in BOOLEAN : ResultRevised(seg, final)

SpecSpeech == Init /\ [][NextSpeech]_vars

\* C29: every recognized result contributes its text to the source text once:
\* the source text is the transcripts of the results, one after the other,
\* also for a result delivered as interim and again as revised or final.
C29_EachResultOnce == sourceText = TranscriptFrom(results, 1)

\* ------------------------------------------------------------- SpecLang
\* The language selectors, the swap buttons and the history list of the
\* translators (App.tsx:100-111, 155-185, 300-309, 491-500; index.tsx:347-355).
\* codes of SUPPORTED_LANGUAGES (types.ts); detectLanguage answers with one
LanguageCodes == {"en", "es", "de"}
LangTexts == { <<"h", "i">> }

LangFrame ==
  /\ UNCHANGED <<isTranslating, isProcessingFile, timers, requests, edits,
                 tracksFile, auxVars>>
  /\ UNCHANGED <<msgs, delivered, voiceVars, playVars, codecVars>>

\* the source <select>: 'auto' or a supported language
LangSelectSource(l) ==
  /\ sourceLang' = l
  /\ UNCHANGED <<sourceText, translatedText, targetLang, detectedLang,
                 history, stored>>
  /\ LangFrame

\* the target <select>: a supported language
LangSelectTarget(l) ==
  /\ targetLang' = l
  /\ UNCHANGED <<sourceText, translatedText, sourceLang, detectedLang,
                 history, stored>>
  /\ LangFrame

\* the source textarea
LangEdit(text) ==
  /\ sourceText = <<>>
  /\ sourceText' = text
  /\ UNCHANGED <<translatedText, sourceLang, targetLang, detectedLang,
                 history, stored>>
  /\ LangFrame

\* handleTranslate run to its end (App.tsx:49-88): the language is detected
\* when the source is 'auto', and the item holds the languages used
LangTranslate(detected) ==
  /\ sourceText # <<>>
  /\ Len(history) < MaxItems
  /\ detectedLang' = IF sourceLang = "auto" THEN detected ELSE "null"
  /\ translatedText' = Translation(sourceText, targetLang)
  /\ history' = PushHistory(history,
       [sourceText |-> sourceText, translatedText |-> translatedText',
        sourceLang |-> IF sourceLang = "auto" THEN detected ELSE sourceLang,
        targetLang |-> targetLang])
  /\ stored' = PersistEffect(history')
  /\ UNCHANGED <<sourceText, sourceLang, targetLang>>
  /\ LangFrame

\* swap with oldS = sourceLang, 'auto' included
swapUnresolved ==
  /\ sourceLang' = targetLang
  /\ targetLang' = sourceLang
  /\ sourceText' = translatedText
  /\ translatedText' = sourceText
  /\ UNCHANGED <<detectedLang, history, stored>>
  /\ LangFrame

\* swap (App.tsx:491-500): oldS = sourceLang === 'auto' ? detectedLang || 'en'
\* : sourceLang
swap ==
  /\ sourceLang' = targetLang
  /\ targetLang' = IF sourceLang = "auto"
                   THEN (IF detectedLang = "null" THEN "en" ELSE detectedLang)
                   ELSE sourceLang
  /\ sourceText' = translatedText
  /\ translatedText' = sourceText
  /\ UNCHANGED <<detectedLang, history, stored>>
  /\ LangFrame

\* swapLanguages (App.tsx:100-111): the languages are left alone when the
\* source is 'auto' and nothing was detected; the texts are swapped anyway
swapLanguages ==
  /\ IF sourceLang = "auto" /\ detectedLang # "null"
     THEN sourceLang' = targetLang /\ targetLang' = detectedLang
     ELSE IF sourceLang # "auto"
          THEN sourceLang' = targetLang /\ targetLang' = sourceLang
          ELSE UNCHANGED <<sourceLang, targetLang>>
  /\ sourceText' = translatedText
  /\ translatedText' = sourceText
  /\ UNCHANGED <<detectedLang, history, stored>>
  /\ LangFrame

\* swapLanguages (index.tsx:347-355): if (sourceLang === 'auto') return
swapLanguagesConcrete ==
  /\ sourceLang # "auto"
  /\ sourceLang' = targetLang
  /\ targetLang' = sourceLang
  /\ sourceText' = translatedText
  /\ translatedText' = sourceText
  /\ UNCHANGED <<detectedLang, history, stored>>
  /\ LangFrame

\* a click on item k of the history list (App.tsx:304-309)
RestoreHistory(k) ==
  /\ sourceText' = history[k].sourceText
  /\ translatedText' = history[k].translatedText
  /\ sourceLang' = history[k].sourceLang
  /\ targetLang' = history[k].targetLang
  /\ UNCHANGED <<detectedLang, history, stored>>
  /\ LangFrame

NextLang ==
  \/ \E l \in LanguageCodes \cup {"auto"} : LangSelectSource(l)
  \/ \E l \in LanguageCodes : LangSelectTarget(l)
  \/ \E text \in LangTexts : LangEdit(text)
  \/ \E detected \in LanguageCodes : LangTranslate(detected)
  \/ swap
  \/ swapLanguages
  \/ swapLanguagesConcrete
  \/ \E k \in 1..Len(history) : RestoreHistory(k)

SpecLang == Init /\ [][NextLang]_vars

\* C30: in every reachable state the target language is a language code and
\* never 'auto', whatever selections, swaps and history restores were made;
\* the items of the history hold a language code as their target as well.
C30_TargetNeverAuto ==
  /\ targetLang \in LanguageCodes
  /\ \A k \in 1..Len(history) : history[k].targetLang \in LanguageCodes

\* the swap button was pressed while the source was 'auto' and a language had
\* been detected: the detected language is the target now
C30_Witness ==
  /\ detectedLang = "de"
  /\ targetLang = "de"
  /\ sourceLang = "es"
  /\ sourceText = Translation(<<"h", "i">>, "es")
  /\ translatedText = <<"h", "i">>
====
